---- MODULE Spec2Model ----
(***************************************************************************)
(* A model of vispy's scenegraph composition layer:                        *)
(*   - vispy/scene/visuals.py: VisualNode (picking, interactive, draw, the *)
(*     id counter and the weak id registry) and create_visual_node;        *)
(*   - vispy/scene/transforms/transform.py: the base Transform, its        *)
(*     map / imap / inverse and the multiplication protocol.               *)
(* Every operation is one action.  An action runs the whole handler and    *)
(* leaves in `trace` the calls the handler made, in the order it made      *)
(* them, and in `op` the call that ran.                                     *)
(***************************************************************************)
EXTENDS Integers, Sequences, FiniteSets, TLC

\* ------------------------------------------------------------------ bounds
\* VisualNode objects constructed in one run.
MaxNodes == 3

\* Instances constructed in a run of the factory.
MaxInstances == 2
\* Base Transform objects in existence.
NumTransforms == 2
\* Listeners that may connect to a Transform's change notification.
MaxListeners == 2
\* Test points 0..MaxPoint are mapped through products.
MaxPoint == 2
\* Clipper objects handed to _set_clipper.
MaxClippers == 2
\* Opacity takes the values 0/OpacitySteps .. OpacitySteps/OpacitySteps.
OpacitySteps == 1

\* ------------------------------------------------------------------ state
VARIABLES
    next_id,        \* VisualNode._next_id
    visual_ids,     \* VisualNode._visual_ids: id -> node, weak in its values
    created,        \* number of VisualNodes constructed so far (nodes 1..created)
    alive,          \* the nodes that have not been collected
    held,           \* the nodes the caller holds a reference to
    parent,         \* Node.parent (0: none)
    children,       \* Node.children, in insertion order
    node_id,        \* VisualNode._id
    picking,        \* VisualNode._picking
    interactive,    \* VisualNode._interactive
    filter_enabled, \* VisualNode._picking_filter.enabled
    blend,          \* the blend value last given to update_gl_state
    opacity,        \* Node._opacity, in steps of 1/OpacitySteps
    alpha,          \* VisualNode._opacity_filter.alpha
    clippers,       \* VisualNode._clippers: node -> clipper (0: no entry)
    attached,       \* the filters attached to each node
    last_set,       \* the clipper of the latest _set_clipper call, per node
    composed,       \* the types create_visual_node has returned
    node_type,      \* the composed type of each node
    listeners,      \* Transform.changed: the listeners connected to each Transform
    result,         \* what the last call returned or raised
    op,             \* the operation that ran last
    trace           \* the calls it made, in order

vars == <<next_id, visual_ids, created, alive, held, parent, children, node_id,
          picking, interactive, filter_enabled, blend, opacity, alpha,
          clippers, attached, last_set, composed, node_type,
          listeners, result, op, trace>>

Nodes == 1..MaxNodes
NoNode == 0
Clippers == 1..MaxClippers
NoClipper == 0
OpacityValues == 0..OpacitySteps
TransformObjs == 1..NumTransforms
Listeners == 1..MaxListeners
TestPoints == 0..MaxPoint

\* One call made by a handler: what was called, on which node, with which value.
Event(e, n, v) == [ev |-> e, node |-> n, val |-> v]

\* The scene as one value, so that a handler is a function from scene to scene.
Scene ==
    [next_id |-> next_id, visual_ids |-> visual_ids, created |-> created,
     alive |-> alive, held |-> held, parent |-> parent, children |-> children,
     node_id |-> node_id, picking |-> picking, interactive |-> interactive,
     filter_enabled |-> filter_enabled, blend |-> blend,
     opacity |-> opacity, alpha |-> alpha, clippers |-> clippers,
     attached |-> attached, last_set |-> last_set,
     node_type |-> node_type, trace |-> <<>>]

Commit(s) ==
    /\ next_id' = s.next_id
    /\ visual_ids' = s.visual_ids
    /\ created' = s.created
    /\ alive' = s.alive
    /\ held' = s.held
    /\ parent' = s.parent
    /\ children' = s.children
    /\ node_id' = s.node_id
    /\ picking' = s.picking
    /\ interactive' = s.interactive
    /\ filter_enabled' = s.filter_enabled
    /\ blend' = s.blend
    /\ opacity' = s.opacity
    /\ alpha' = s.alpha
    /\ clippers' = s.clippers
    /\ attached' = s.attached
    /\ last_set' = s.last_set
    /\ node_type' = s.node_type
    /\ trace' = s.trace

Log(s, e, n, v) == [s EXCEPT !.trace = Append(@, Event(e, n, v))]

\* What a call gives back: a value, or an exception.
NoResult == [raised |-> FALSE, exc |-> "", none |-> TRUE]
Return(v) == [raised |-> FALSE, exc |-> "", value |-> v]
Raise(e) == [raised |-> TRUE, exc |-> e]

\* ------------------------------------------------- create_visual_node
\* A class name is the sequence of its characters.
Visual == <<"V", "i", "s", "u", "a", "l">>

\* str.endswith
EndsWith(s, suffix) ==
    /\ Len(s) >= Len(suffix)
    /\ SubSeq(s, Len(s) - Len(suffix) + 1, Len(s)) = suffix

\* s[:-k] of Python: all but the last k characters, empty when there are
\* no more than k.
DropLast(s, k) == IF Len(s) > k THEN SubSeq(s, 1, Len(s) - k) ELSE <<>>

\* A drawable class handed to the factory: its __name__ and whether it is a
\* subclass of visuals.BaseVisual.
VisualClass(name, isvisual) == [name |-> name, base_visual |-> isvisual]

\* type(clsname, (VisualNode, subclass), ...)
ComposedType(clsname, subclass) == [name |-> clsname, visual |-> subclass]

\* create_visual_node with the two conditions joined by "or".
create_visual_node_either(subclass) ==
    LET clsname == subclass.name IN
    IF ~(EndsWith(clsname, Visual) \/ subclass.base_visual)
    THEN [raised |-> TRUE, exc |-> "RuntimeError", names |-> clsname]
    ELSE [raised |-> FALSE, exc |-> "",
          cls |-> ComposedType(DropLast(clsname, 6), subclass)]

\* create_visual_node(subclass): the type it returns, or the error it raises.
create_visual_node(subclass) ==
    LET clsname == subclass.name IN
    IF ~(EndsWith(clsname, Visual) /\ subclass.base_visual)
    THEN [raised |-> TRUE, exc |-> "RuntimeError", names |-> clsname]
    ELSE [raised |-> FALSE, exc |-> "",
          cls |-> ComposedType(DropLast(clsname, 6), subclass)]

\* The types the module composes when it is loaded (Line = create_visual_node(
\* visuals.LineVisual), ...); one of them stands for the list.
LineVisual == VisualClass(<<"L", "i", "n", "e">> \o Visual, TRUE)
ModuleTypes == {create_visual_node(LineVisual).cls}

\* The classes handed to the factory: names with and without the suffix,
\* with a near miss of it, with it inside the name, and the bare suffix.
NameHeads == {<<>>, <<"L", "i", "n", "e">>, <<"M", "e", "s", "h">>, Visual}
NameTails ==
    {<<>>, Visual, <<"v", "i", "s", "u", "a", "l">>, <<"i", "s", "u", "a", "l">>,
     <<"V", "i", "s", "u", "a">>, Visual \o <<"s">>}
CandidateClasses ==
    {VisualClass(h \o t, v) : h \in NameHeads, t \in NameTails, v \in BOOLEAN}

\* ------------------------------------------------- Transform
\* A transform value: its kind, its parameters, and for a chain its members.
Tr(kind, param, members) ==
    [kind |-> kind, param |-> param, transforms |-> members]

\* The t-th object of the base kind.
BaseTransform(t) == Tr("Transform", <<t>>, <<>>)

\* A concrete kind that merges with its own kind: x -> scale * x + translate.
STTransform(scale, translate) == Tr("STTransform", <<scale, translate>>, <<>>)

\* A concrete kind that never merges: x -> |x - 1|, which is not linear.
NonLinear == Tr("NonLinear", <<>>, <<>>)

\* Transform.map, Transform.imap, Transform.inverse
TransformMapReturnsInput(self, obj) == Return(obj)
TransformMap(self, obj) == Raise("NotImplementedError")
TransformImap(self, obj) == Raise("NotImplementedError")
TransformInverse(self) == Raise("NotImplementedError")

STMap(self, obj) == Return(self.param[1] * obj + self.param[2])
NonLinearMap(self, obj) == Return(IF obj >= 1 THEN obj - 1 ELSE 1 - obj)

\* ChainTransform.map applies the members from the last to the first.
RECURSIVE Map(_, _), ChainMap(_, _)
ChainMap(members, obj) ==
    IF members = <<>> THEN Return(obj)
    ELSE LET r == Map(members[Len(members)], obj) IN
         IF r.raised THEN r
         ELSE ChainMap(SubSeq(members, 1, Len(members) - 1), r.value)

Map(self, obj) ==
    CASE self.kind = "Transform" -> TransformMap(self, obj)
      [] self.kind = "STTransform" -> STMap(self, obj)
      [] self.kind = "NonLinear" -> NonLinearMap(self, obj)
      [] self.kind = "ChainTransform" -> ChainMap(self.transforms, obj)

\* ChainTransform(transforms): nested chains are flattened.
RECURSIVE Flatten(_)
Flatten(trs) ==
    IF trs = <<>> THEN <<>>
    ELSE (IF Head(trs).kind = "ChainTransform" THEN Head(trs).transforms
          ELSE <<Head(trs)>>) \o Flatten(Tail(trs))

ChainTransform(trs) == Tr("ChainTransform", <<>>, Flatten(trs))

\* Two transforms of the merging kind make one: apply b, then a.
Merges(a, b) == a.kind = "STTransform" /\ b.kind = "STTransform"
Merge(a, b) ==
    STTransform(a.param[1] * b.param[1], a.param[1] * b.param[2] + a.param[2])

\* Adjacent members that merge are replaced by their product, until no
\* adjacent pair merges.
RECURSIVE Simplify(_)
Simplify(trs) ==
    LET at == {i \in 1..(Len(trs) - 1) : Merges(trs[i], trs[i + 1])} IN
    IF at = {} THEN trs
    ELSE LET i == CHOOSE i \in at : \A j \in at : i <= j IN
         Simplify(SubSeq(trs, 1, i - 1) \o <<Merge(trs[i], trs[i + 1])>>
                      \o SubSeq(trs, i + 2, Len(trs)))

\* Transform.__rmul__ with the operands in the order of its docstring's step 5.
TransformRmulSwapped(self, tr) == ChainTransform(<<self, tr>>)

\* Transform.__rmul__(self, tr), for tr * self
TransformRmul(self, tr) == ChainTransform(<<tr, self>>)

\* __rmul__ of the merging kind: merge, or leave it to the superclass.
STRmul(self, tr) ==
    IF Merges(tr, self) THEN Merge(tr, self) ELSE TransformRmul(self, tr)

\* ChainTransform.__rmul__: prepend and simplify.
ChainRmul(self, tr) ==
    Tr("ChainTransform", <<>>, Simplify(Flatten(<<tr>>) \o self.transforms))

\* self.__rmul__(tr), by the kind of self
Rmul(self, tr) ==
    CASE self.kind = "STTransform" -> STRmul(self, tr)
      [] self.kind = "ChainTransform" -> ChainRmul(self, tr)
      [] OTHER -> TransformRmul(self, tr)

\* Transform.__mul__(self, tr), for self * tr
TransformMul(self, tr) == Rmul(tr, self)

\* __mul__ of the merging kind: merge, or leave it to the superclass.
STMul(self, tr) ==
    IF Merges(self, tr) THEN Merge(self, tr) ELSE TransformMul(self, tr)

\* ChainTransform.__mul__: append and simplify.
ChainMul(self, tr) ==
    Tr("ChainTransform", <<>>, Simplify(self.transforms \o Flatten(<<tr>>)))

\* self.__mul__(tr), by the kind of self
Mul(self, tr) ==
    CASE self.kind = "STTransform" -> STMul(self, tr)
      [] self.kind = "ChainTransform" -> ChainMul(self, tr)
      [] OTHER -> TransformMul(self, tr)

\* The kinds that define __rmul__ themselves; every kind is a subclass of
\* Transform.
OverridesRmul(kind) == kind \in {"STTransform", "ChainTransform"}
ProperSubclass(kind, of) == of = "Transform" /\ kind # "Transform"

\* a * b as Python evaluates it: b.__rmul__(a) first when b's class is a
\* proper subclass of a's that overrides __rmul__, a.__mul__(b) otherwise.
\* No __mul__ or __rmul__ here returns NotImplemented.
Star(a, b) ==
    IF ProperSubclass(b.kind, a.kind) /\ OverridesRmul(b.kind)
    THEN Rmul(b, a)
    ELSE Mul(a, b)

\* The methods a product calls, in the order of the calls: the node of an
\* event is the operand whose method it is (1: the left operand, 2: the right
\* one), its value the class that defines the method.
Left == 1
Right == 2

\* self.__rmul__(tr) with self the right operand
RmulCalls(self, tr) ==
    CASE self.kind = "STTransform" ->
            <<Event("__rmul__", Right, "STTransform")>>
               \o (IF Merges(tr, self) THEN <<>>
                   ELSE <<Event("__rmul__", Right, "Transform")>>)
      [] self.kind = "ChainTransform" ->
            <<Event("__rmul__", Right, "ChainTransform")>>
      [] OTHER -> <<Event("__rmul__", Right, "Transform")>>

\* Transform.__mul__(self, tr) with self the left operand
TransformMulCalls(self, tr) ==
    <<Event("__mul__", Left, "Transform")>> \o RmulCalls(tr, self)

\* self.__mul__(tr) with self the left operand
MulCalls(self, tr) ==
    CASE self.kind = "STTransform" ->
            <<Event("__mul__", Left, "STTransform")>>
               \o (IF Merges(self, tr) THEN <<>>
                   ELSE TransformMulCalls(self, tr))
      [] self.kind = "ChainTransform" ->
            <<Event("__mul__", Left, "ChainTransform")>>
      [] OTHER -> TransformMulCalls(self, tr)

\* The calls of a * b.
StarCalls(a, b) ==
    IF ProperSubclass(b.kind, a.kind) /\ OverridesRmul(b.kind)
    THEN RmulCalls(b, a)
    ELSE MulCalls(a, b)

\* The operands of the products that are formed.
Leaves ==
    {BaseTransform(t) : t \in TransformObjs}
        \cup {STTransform(2, 0), STTransform(1, 1), NonLinear}
Operands == Leaves \cup {Star(a, b) : a, b \in Leaves}

\* Transform.update: the change notification goes to every listener, in the
\* order they connected, before update returns.
RECURSIVE Notify(_, _, _)
Notify(tr, t, ls) ==
    IF ls = <<>> THEN tr
    ELSE Notify(Append(tr, Event("transform_changed", t, Head(ls))), t, Tail(ls))

\* Transform.update that returns without calling self.changed()
TransformUpdateDeferred(t) == <<>>

\* Transform.update(): self.changed()
TransformUpdate(t) == Notify(<<>>, t, listeners[t])

\* ------------------------------------------------- VisualNode handlers
\* What is attached to a node: its Alpha filter, its PickingFilter, a clipper.
Filter(kind, id) == [kind |-> kind, id |-> id]
AlphaFilter == Filter("Alpha", 0)
PickingFilter == Filter("PickingFilter", 0)
ClipperFilter(c) == Filter("Clipper", c)

\* Node.attach(item): the item joins the set of attached items.
Attach(s, n, item) ==
    Log([s EXCEPT !.attached[n] = @ \cup {item}], "attach", n, item)

\* Node.detach(item): the item leaves the set; detaching an item that is not
\* attached is a no-op.
Detach(s, n, item) ==
    Log([s EXCEPT !.attached[n] = @ \ {item}], "detach", n, item)

\* Node.__init__(parent, name, transforms): the node enters the tree under
\* its parent, not picking, with no children.
NodeInit(s, n, p) ==
    LET s1 == [s EXCEPT !.created = n,
                        !.alive = @ \cup {n},
                        !.parent[n] = p,
                        !.children[n] = <<>>,
                        !.picking[n] = FALSE,
                        !.opacity[n] = OpacitySteps,
                        !.clippers[n] = [m \in Nodes |-> NoClipper],
                        !.attached[n] = {}]
        s2 == IF p = NoNode THEN s1
              ELSE [s1 EXCEPT !.children[p] = Append(@, n)]
    IN Log(s2, "Node.__init__", n, p)

\* VisualNode.__init__ without the increment of _next_id.
VisualNodeInitKeepsCounter(s, n, p) ==
    LET s1 == NodeInit(s, n, p)
        s2 == [s1 EXCEPT !.interactive[n] = FALSE]
        s3 == Log(Attach([s2 EXCEPT !.alpha[n] = OpacitySteps], n, AlphaFilter),
                  "attach_opacity_filter", n, 0)
        i  == s3.next_id
        s4 == [s3 EXCEPT !.node_id[n] = i]
        s5 == Log([s4 EXCEPT !.visual_ids = [k \in DOMAIN @ \cup {i} |->
                                               IF k = i THEN n ELSE @[k]]],
                  "register_id", n, i)
        s7 == [s5 EXCEPT !.filter_enabled[n] = FALSE]
    IN Log(Attach(s7, n, PickingFilter), "attach_picking_filter", n, i)

\* VisualNode.__init__(parent, name)
VisualNodeInit(s, n, p) ==
    LET s1 == NodeInit(s, n, p)
        s2 == [s1 EXCEPT !.interactive[n] = FALSE]
        s3 == Log(Attach([s2 EXCEPT !.alpha[n] = OpacitySteps], n, AlphaFilter),
                  "attach_opacity_filter", n, 0)
        i  == s3.next_id
        s4 == [s3 EXCEPT !.node_id[n] = i]
        s5 == Log([s4 EXCEPT !.visual_ids = [k \in DOMAIN @ \cup {i} |->
                                               IF k = i THEN n ELSE @[k]]],
                  "register_id", n, i)
        s6 == [s5 EXCEPT !.next_id = @ + 1]
        s7 == [s6 EXCEPT !.filter_enabled[n] = FALSE]
    IN Log(Attach(s7, n, PickingFilter), "attach_picking_filter", n, i)

\* The drawable's own __init__ : code of the drawable, which completes or
\* raises.
DrawableInit(s, n, completes) ==
    LET s1 == Log(s, "drawable_init_begin", n, 0) IN
    IF completes THEN Log(s1, "drawable_init_end", n, 0)
    ELSE Log(s1, "drawable_init_raise", n, 0)

Raised(s) ==
    /\ Len(s.trace) > 0
    /\ s.trace[Len(s.trace)].ev = "drawable_init_raise"

\* The composed __init__ with VisualNode.__init__ called before the
\* drawable's.
CompositeInitNodeFirst(s, n, p, cls, completes) ==
    LET s0 == Log(Log(s, "set_name", n, 0), "set_visual_superclass", n, 0)
        s1 == VisualNodeInit(Log(s0, "unfreeze", n, 0), n, p)
        s2 == DrawableInit([s1 EXCEPT !.node_type[n] = cls], n, completes)
    IN IF Raised(s2) THEN s2
       ELSE Log([s2 EXCEPT !.held = @ \cup {n}], "freeze", n, 0)

\* The __init__ create_visual_node gives the composed type.  A construction
\* that completes hands the node to the caller; one that raises leaves an
\* object nothing refers to, which never was in the scene.
CompositeInit(s, n, p, cls, completes) ==
    LET s0 == Log(Log(s, "set_name", n, 0), "set_visual_superclass", n, 0)
        s1 == DrawableInit([s0 EXCEPT !.node_type[n] = cls], n, completes)
    IN IF Raised(s1) THEN [s EXCEPT !.trace = s1.trace]
       ELSE LET s2 == VisualNodeInit(Log(s1, "unfreeze", n, 0), n, p)
            IN Log([s2 EXCEPT !.held = @ \cup {n}], "freeze", n, 0)

\* VisualNode.picking (setter): forward to every child, then update this node
\* only if its value changes.
RECURSIVE PickingSetter(_, _, _), PickingForward(_, _, _)
PickingForward(s, cs, p) ==
    IF cs = <<>> THEN s
    ELSE PickingForward(PickingSetter(s, Head(cs), p), Tail(cs), p)

\* The local update asking for blend=p.
PickingUpdateBlendsAsPicking(s, n, p) ==
    LET s2 == [s EXCEPT !.picking[n] = p]
        s3 == Log([s2 EXCEPT !.filter_enabled[n] = p],
                  "set_filter_enabled", n, p)
    IN Log([s3 EXCEPT !.blend[n] = IF p THEN "on" ELSE "off"],
           "update_gl_state", n, p)

\* The local update, as the setter does it when the value changes.
PickingUpdate(s, n, p) ==
    LET s2 == [s EXCEPT !.picking[n] = p]
        s3 == Log([s2 EXCEPT !.filter_enabled[n] = p],
                  "set_filter_enabled", n, p)
    IN Log([s3 EXCEPT !.blend[n] = IF p THEN "off" ELSE "on"],
           "update_gl_state", n, ~p)

\* The setter with the early return moved before the loop over the children.
PickingSetterReturnsFirst(s, n, p) ==
    LET s0 == Log(s, "picking_setter", n, p) IN
    IF s0.picking[n] = p THEN s0
    ELSE PickingUpdate(PickingForward(s0, s.children[n], p), n, p)

\* The setter without the early return.
PickingSetterAlwaysUpdates(s, n, p) ==
    PickingUpdate(PickingForward(Log(s, "picking_setter", n, p),
                                 s.children[n], p), n, p)

PickingSetter(s, n, p) ==
    LET s1 == PickingForward(Log(s, "picking_setter", n, p), s.children[n], p)
    IN IF s1.picking[n] = p THEN s1
       ELSE PickingUpdate(s1, n, p)

\* VisualNode.interactive (setter)
InteractiveSetter(s, n, i) == [s EXCEPT !.interactive[n] = i]

\* draw gated on picking alone.
VisualNodeDrawIgnoresInteractive(s, n) ==
    IF s.picking[n] THEN s
    ELSE Log(s, "visual_draw", n, 0)

\* VisualNode.draw
VisualNodeDraw(s, n) ==
    IF s.picking[n] /\ ~s.interactive[n] THEN s
    ELSE Log(s, "visual_draw", n, 0)

\* ------------------------------------------------- reachability
\* A strong registry: its entry would be a reference to the node.
RegistryHoldsStrongly(n) == \E i \in DOMAIN visual_ids : visual_ids[i] = n

\* VisualNode._visual_ids is a weakref.WeakValueDictionary: its entry is no
\* reference to the node.
RegistryHolds(n) == FALSE

\* A node is referenced by the caller or by the children list of a node that
\* has not been collected.
InChildren(m, n) == \E k \in 1..Len(children[m]) : children[m][k] = n

Referenced(n) ==
    \/ n \in held
    \/ \E m \in alive \ {n} : InChildren(m, n)
    \/ RegistryHolds(n)

\* The caller reaches a node it holds, and the children of a node it reaches.
RECURSIVE Reachable(_)
Reachable(n) ==
    /\ n \in alive
    /\ \/ n \in held
       \/ parent[n] # NoNode /\ Reachable(parent[n])

\* id -> VisualNode, or NoNode for "not found".
Lookup(i) == IF i \in DOMAIN visual_ids THEN visual_ids[i] ELSE NoNode

\* ------------------------------------------------- actions
Loaded ==
    /\ next_id = 1
    /\ visual_ids = <<>>
    /\ created = 0
    /\ alive = {}
    /\ held = {}
    /\ parent = [n \in Nodes |-> NoNode]
    /\ children = [n \in Nodes |-> <<>>]
    /\ node_id = [n \in Nodes |-> 0]
    /\ picking = [n \in Nodes |-> FALSE]
    /\ interactive = [n \in Nodes |-> FALSE]
    /\ filter_enabled = [n \in Nodes |-> FALSE]
    /\ blend = [n \in Nodes |-> "unset"]
    /\ opacity = [n \in Nodes |-> OpacitySteps]
    /\ alpha = [n \in Nodes |-> OpacitySteps]
    /\ clippers = [n \in Nodes |-> [m \in Nodes |-> NoClipper]]
    /\ attached = [n \in Nodes |-> {}]
    /\ last_set = [n \in Nodes |-> [m \in Nodes |-> NoClipper]]
    /\ composed = ModuleTypes
    /\ node_type = [n \in Nodes |-> <<>>]
    /\ listeners = [t \in TransformObjs |-> <<>>]
    /\ result = NoResult
    /\ trace = <<>>

Init ==
    /\ Loaded
    /\ op = [name |-> "load"]

\* node = Type(..., parent=p)
Construct ==
    \E p \in {NoNode} \cup {m \in Nodes : Reachable(m)}, cls \in composed,
       completes \in BOOLEAN :
        /\ created < MaxNodes
        /\ Commit(CompositeInit(Scene, created + 1, p, cls, completes))
        /\ op' = [name |-> "construct", node |-> created + 1, parent |-> p,
                  completes |-> completes]
        /\ result' = NoResult
        /\ UNCHANGED <<composed, listeners>>

\* n.picking = p
SetPicking ==
    \E n \in Nodes, p \in BOOLEAN :
        /\ Reachable(n)
        /\ Commit(PickingSetter(Scene, n, p))
        /\ op' = [name |-> "set_picking", node |-> n, value |-> p,
                  was |-> picking[n]]
        /\ result' = NoResult
        /\ UNCHANGED <<composed, listeners>>

\* n.interactive = i
SetInteractive ==
    \E n \in Nodes, i \in BOOLEAN :
        /\ Reachable(n)
        /\ Commit(InteractiveSetter(Scene, n, i))
        /\ op' = [name |-> "set_interactive", node |-> n, value |-> i]
        /\ result' = NoResult
        /\ UNCHANGED <<composed, listeners>>

\* n.draw()
Draw ==
    \E n \in Nodes :
        /\ Reachable(n)
        /\ Commit(VisualNodeDraw(Scene, n))
        /\ op' = [name |-> "draw", node |-> n]
        /\ result' = NoResult
        /\ UNCHANGED <<composed, listeners>>

\* The caller drops its reference to a node.
Release ==
    \E n \in held :
        /\ Commit([Scene EXCEPT !.held = @ \ {n}])
        /\ op' = [name |-> "release", node |-> n]
        /\ result' = NoResult
        /\ UNCHANGED <<composed, listeners>>

\* The WeakValueDictionary drops the entry of a value that is collected.
RegistryDiscard(s, n) ==
    [s EXCEPT !.visual_ids = [k \in {j \in DOMAIN @ : @[j] # n} |-> @[k]]]

\* The collector frees a node nothing refers to: the parent reference of its
\* children, which is weak, dies with it.
Collected(s, n) ==
    RegistryDiscard([s EXCEPT !.alive = @ \ {n},
                              !.parent = [c \in Nodes |->
                                            IF @[c] = n THEN NoNode ELSE @[c]],
                              !.children[n] = <<>>], n)

CollectNode(n) ==
    /\ n \in alive
    /\ ~Referenced(n)
    /\ Commit(Collected(Scene, n))
    /\ op' = [name |-> "collect", node |-> n]
    /\ result' = NoResult
    /\ UNCHANGED <<composed, listeners>>

Collect == \E n \in Nodes : CollectNode(n)

Next == Construct \/ SetPicking \/ SetInteractive \/ Draw

\* The scenegraph: construction, picking, interactive and draw.
Spec == Init /\ [][Next]_vars

NextIds == Construct \/ Release \/ Collect

\* Identity: construction, and collection of nodes nothing refers to.
SpecIds == Init /\ [][NextIds]_vars

sceneVars == <<next_id, visual_ids, created, alive, held, parent, children,
               node_id, picking, interactive, filter_enabled, blend, opacity,
               alpha, clippers, attached, last_set, node_type>>

\* The operands a product is formed of are chosen when the run starts.
InitMul ==
    /\ Loaded
    /\ op \in {[name |-> "operands", a |-> a, b |-> b, c |-> c] :
                 a \in Operands, b \in Operands, c \in Operands}

\* a * b
Multiply ==
    /\ op.name = "operands"
    /\ result' = Return(Star(op.a, op.b))
    /\ op' = [op EXCEPT !.name = "mul"]
    /\ trace' = StarCalls(op.a, op.b)
    /\ UNCHANGED <<sceneVars, composed, listeners>>

\* (a * b) * c and a * (b * c)
MultiplyThree ==
    /\ op.name = "operands"
    /\ result' = [raised |-> FALSE, exc |-> "",
                  left |-> Star(Star(op.a, op.b), op.c),
                  right |-> Star(op.a, Star(op.b, op.c))]
    /\ op' = [op EXCEPT !.name = "mul3"]
    /\ trace' = <<>>
    /\ UNCHANGED <<sceneVars, composed, listeners>>

NextMul == Multiply \/ MultiplyThree

\* Products of transforms.
SpecMul == InitMul /\ [][NextMul]_vars

\* t.changed.connect(l)
Connect ==
    \E t \in TransformObjs, l \in Listeners :
        /\ \A k \in 1..Len(listeners[t]) : listeners[t][k] # l
        /\ listeners' = [listeners EXCEPT ![t] = Append(@, l)]
        /\ result' = NoResult
        /\ op' = [name |-> "connect", transform |-> t, listener |-> l]
        /\ trace' = <<>>
        /\ UNCHANGED <<sceneVars, composed>>

\* t.update()
Update ==
    \E t \in TransformObjs :
        /\ trace' = TransformUpdate(t)
        /\ result' = NoResult
        /\ op' = [name |-> "update", transform |-> t]
        /\ UNCHANGED <<sceneVars, composed, listeners>>

\* t.map(obj), t.imap(obj), t.inverse() on a Transform of the base kind
CallMap ==
    \E t \in TransformObjs, obj \in TestPoints :
        /\ result' = Map(BaseTransform(t), obj)
        /\ op' = [name |-> "map", transform |-> t, obj |-> obj]
        /\ trace' = <<>>
        /\ UNCHANGED <<sceneVars, composed, listeners>>

CallImap ==
    \E t \in TransformObjs, obj \in TestPoints :
        /\ result' = TransformImap(BaseTransform(t), obj)
        /\ op' = [name |-> "imap", transform |-> t, obj |-> obj]
        /\ trace' = <<>>
        /\ UNCHANGED <<sceneVars, composed, listeners>>

CallInverse ==
    \E t \in TransformObjs :
        /\ result' = TransformInverse(BaseTransform(t))
        /\ op' = [name |-> "inverse", transform |-> t]
        /\ trace' = <<>>
        /\ UNCHANGED <<sceneVars, composed, listeners>>

NextTransform == Connect \/ Update \/ CallMap \/ CallImap \/ CallInverse

\* Transform objects: map / imap / inverse and the change notification.
SpecTransform == Init /\ [][NextTransform]_vars

\* cls = create_visual_node(subclass)
CreateVisualNode ==
    \E subclass \in CandidateClasses :
        LET r == create_visual_node(subclass) IN
        /\ result' = r
        /\ composed' = IF r.raised THEN composed ELSE composed \cup {r.cls}
        /\ op' = [name |-> "create_visual_node", subclass |-> subclass]
        /\ trace' = <<>>
        /\ UNCHANGED <<sceneVars, listeners>>

\* node = cls(), with no parent
Instantiate ==
    \E cls \in composed, completes \in BOOLEAN :
        /\ created < MaxInstances
        /\ Commit(CompositeInit(Scene, created + 1, NoNode, cls, completes))
        /\ op' = [name |-> "construct", node |-> created + 1,
                  parent |-> NoNode, completes |-> completes]
        /\ result' = NoResult
        /\ UNCHANGED <<composed, listeners>>

NextFactory == CreateVisualNode \/ Instantiate

\* The factory: composing types and constructing instances of them.
SpecFactory == Init /\ [][NextFactory]_vars

\* ------------------------------------------------- clippers and opacity
\* Node.parent = p: the node leaves the children of its old parent and joins
\* those of p (p = NoNode: the node is detached from the tree).
Without(cs, n) == SelectSeq(cs, LAMBDA c : c # n)

ParentSetter(s, n, p) ==
    LET old == s.parent[n]
        s1 == IF old = NoNode THEN s
              ELSE [s EXCEPT !.children[old] = Without(@, n)]
        s2 == IF p = NoNode THEN s1
              ELSE [s1 EXCEPT !.children[p] = Append(@, n)]
    IN Log([s2 EXCEPT !.parent[n] = p], "set_parent", n, p)

\* VisualNode._set_clipper that never detaches the clipper it replaces
SetClipperKeepsAttached(s, self, node, clipper) ==
    LET s1 == IF s.clippers[self][node] # NoClipper
              THEN [s EXCEPT !.clippers[self][node] = NoClipper]
              ELSE s
    IN IF clipper # NoClipper
       THEN [Attach(s1, self, ClipperFilter(clipper))
                EXCEPT !.clippers[self][node] = clipper]
       ELSE s1

\* VisualNode._set_clipper that detaches the old clipper but keeps its entry
SetClipperKeepsEntry(s, self, node, clipper) ==
    LET s1 == IF s.clippers[self][node] # NoClipper
              THEN Detach(s, self, ClipperFilter(s.clippers[self][node]))
              ELSE s
    IN IF clipper # NoClipper
       THEN [Attach(s1, self, ClipperFilter(clipper))
                EXCEPT !.clippers[self][node] = clipper]
       ELSE s1

\* VisualNode._set_clipper(node, clipper)
SetClipper(s, self, node, clipper) ==
    LET s1 == IF s.clippers[self][node] # NoClipper
              THEN [Detach(s, self, ClipperFilter(s.clippers[self][node]))
                       EXCEPT !.clippers[self][node] = NoClipper]
              ELSE s
    IN IF clipper # NoClipper
       THEN [Attach(s1, self, ClipperFilter(clipper))
                EXCEPT !.clippers[self][node] = clipper]
       ELSE s1

\* VisualNode._update_opacity that asks for no redraw
UpdateOpacityNoRedraw(s, n) == [s EXCEPT !.alpha[n] = s.opacity[n]]

\* VisualNode._update_opacity()
UpdateOpacity(s, n) ==
    Log([s EXCEPT !.alpha[n] = s.opacity[n]], "update", n, 0)

\* Node.opacity = o: store the value, then _update_opacity()
OpacitySetter(s, n, o) == UpdateOpacity([s EXCEPT !.opacity[n] = o], n)

RECURSIVE IsAncestor(_, _)
\* a is a proper ancestor of d
IsAncestor(a, d) ==
    /\ parent[d] # NoNode
    /\ \/ parent[d] = a
       \/ IsAncestor(a, parent[d])

\* n.parent = p, for a p that is not below n
SetParent ==
    \E n \in Nodes, p \in {NoNode} \cup Nodes :
        /\ Reachable(n)
        /\ p # NoNode => Reachable(p) /\ p # n /\ ~IsAncestor(n, p)
        /\ p # parent[n]
        /\ Commit(ParentSetter(Scene, n, p))
        /\ op' = [name |-> "set_parent", node |-> n, parent |-> p]
        /\ result' = NoResult
        /\ UNCHANGED <<composed, listeners>>

\* A call of _set_clipper reads and writes the fields of self alone, so the
\* calls are followed on one VisualNode; every node is a possible key.
ClippedVisuals == {1}

\* self._set_clipper(node, clipper), clipper = NoClipper standing for None
SetClipperCall ==
    \E self \in ClippedVisuals, node \in Nodes,
       clipper \in {NoClipper} \cup Clippers :
        /\ Reachable(self)
        /\ Reachable(node)
        /\ Commit([SetClipper(Scene, self, node, clipper)
                      EXCEPT !.last_set[self][node] = clipper])
        /\ op' = [name |-> "set_clipper", self |-> self, node |-> node,
                  clipper |-> clipper, was |-> clippers[self][node]]
        /\ result' = NoResult
        /\ UNCHANGED <<composed, listeners>>

\* n.opacity = o
SetOpacity ==
    \E n \in Nodes, o \in OpacityValues :
        /\ Reachable(n)
        /\ Commit(OpacitySetter(Scene, n, o))
        /\ op' = [name |-> "set_opacity", node |-> n, value |-> o]
        /\ result' = NoResult
        /\ UNCHANGED <<composed, listeners>>

\* node = cls(parent=p)
InstantiateChild ==
    \E p \in {m \in Nodes : Reachable(m)}, cls \in composed :
        /\ created < MaxInstances
        /\ Commit(CompositeInit(Scene, created + 1, p, cls, TRUE))
        /\ op' = [name |-> "construct", node |-> created + 1,
                  parent |-> p, completes |-> TRUE]
        /\ result' = NoResult
        /\ UNCHANGED <<composed, listeners>>

NextClip == Instantiate \/ SetParent \/ SetClipperCall

\* Clippers handed down to the nodes of a small tree.
SpecClip == Init /\ [][NextClip]_vars

NextOpacity == Instantiate \/ InstantiateChild \/ SetPicking
               \/ SetInteractive \/ SetOpacity

\* Opacity next to the picking and interactive flags.
SpecOpacity == Init /\ [][NextOpacity]_vars

\* ------------------------------------------------- vocabulary of the claims
Descendants(n) == {d \in 1..created : IsAncestor(n, d)}

\* The calls of one kind a trace holds for one node.
Calls(t, e, n) == {k \in 1..Len(t) : t[k].ev = e /\ t[k].node = n}

Constructed == 1..created

\* ------------------------------------------------- claims
\* C1: after root.picking = p returns, every descendant of root has
\* picking = p, whatever the picking values of the nodes were before, for
\* p true and p false.
C1_PickingReachesEveryDescendant ==
    op.name = "set_picking" =>
        \A d \in Descendants(op.node) : picking[d] = op.value

\* A root that already held the value was assigned it, and its grandchild,
\* which held the other value, was changed by the assignment.
C1_Witness ==
    /\ op.name = "set_picking"
    /\ parent[op.node] = NoNode
    /\ op.was = op.value
    /\ \E c \in Descendants(op.node) : \E g \in Descendants(c) :
          /\ Calls(trace, "set_filter_enabled", g) # {}
          /\ picking[g] = op.value

\* C2: an assignment of the value the node already holds is forwarded to every
\* child, and leaves the node's picking flag, its filter's enabled state and
\* its blend state as they were, with no write to the filter and no
\* update_gl_state call at that node.
C2_SameValueForwardsWithoutLocalUpdate ==
    [][(op'.name = "set_picking" /\ op'.was = op'.value) =>
         LET n == op'.node IN
         /\ \A k \in 1..Len(children[n]) :
               \E j \in Calls(trace', "picking_setter", children[n][k]) :
                   trace'[j].val = op'.value
         /\ picking'[n] = picking[n]
         /\ filter_enabled'[n] = filter_enabled[n]
         /\ blend'[n] = blend[n]
         /\ Calls(trace', "set_filter_enabled", n) = {}
         /\ Calls(trace', "update_gl_state", n) = {}]_vars

\* A node was assigned the value it held, and a child of it, holding the other
\* value, was updated.
C2_Witness ==
    /\ op.name = "set_picking"
    /\ op.was = op.value
    /\ Calls(trace, "set_filter_enabled", op.node) = {}
    /\ \E k \in 1..Len(children[op.node]) :
          Calls(trace, "update_gl_state", children[op.node][k]) # {}

\* C3: draw() calls the drawable's draw exactly once, unless picking is true
\* and interactive is false, when it calls it not at all; it never changes
\* picking, interactive or the id.
C3_DrawGate ==
    [][op'.name = "draw" =>
         LET n == op'.node IN
         /\ Cardinality(Calls(trace', "visual_draw", n)) =
               IF picking[n] /\ ~interactive[n] THEN 0 ELSE 1
         /\ Len(trace') = Cardinality(Calls(trace', "visual_draw", n))
         /\ picking' = picking
         /\ interactive' = interactive
         /\ node_id' = node_id]_vars

\* draw() ran on a picking, non-interactive node and called nothing.
C3_Witness ==
    /\ op.name = "draw"
    /\ picking[op.node]
    /\ ~interactive[op.node]
    /\ trace = <<>>

\* C4: constructed nodes have ids that increase strictly in construction
\* order (so are pairwise distinct); the counter never decreases and the id
\* of a constructed node never changes.
C4_IdsIncrease ==
    /\ [](\A m, n \in Constructed : m < n => node_id[m] < node_id[n])
    /\ [][/\ next_id' >= next_id
          /\ \A n \in Constructed : node_id'[n] = node_id[n]]_vars

\* Three nodes were constructed, and the counter is past the last id.
C4_Witness ==
    /\ created >= 3
    /\ node_id[1] < node_id[2]
    /\ node_id[2] < node_id[3]
    /\ next_id > node_id[3]

\* C5: a reachable node is what the registry gives for its id; the registry's
\* entry does not keep a node from being collected; the id of a collected node
\* is not found; and no id is given twice.
C5_WeakRegistry ==
    /\ \A n \in Nodes : Reachable(n) => Lookup(node_id[n]) = n
    /\ \A n \in alive :
          (n \notin held /\ ~\E m \in alive \ {n} : InChildren(m, n))
              => ENABLED CollectNode(n)
    /\ \A n \in Constructed \ alive : Lookup(node_id[n]) = NoNode
    /\ \A m, n \in Constructed : m # n => node_id[m] # node_id[n]

\* A node was constructed after another one was collected.
C5_Witness ==
    /\ op.name = "construct"
    /\ op.node \in alive
    /\ \E m \in Constructed \ alive :
          /\ m < op.node
          /\ Lookup(node_id[m]) = NoNode
          /\ Lookup(node_id[op.node]) = op.node

\* C6: for two transforms whose kinds both decline to merge, two of the base
\* kind among them, A * B does not raise and is a ChainTransform whose members
\* are A, B in that order.
BothDecline(a, b) ==
    /\ a.kind # "ChainTransform"
    /\ b.kind # "ChainTransform"
    /\ ~(a.kind = "STTransform" /\ b.kind = "STTransform")

C7_ProductsAssociate ==
    op.name = "mul3" =>
        \A x \in TestPoints : Map(result.left, x) = Map(result.right, x)

\* Three transforms with a mapping, not all of them merging, were multiplied
\* both ways and the products map a point to a value.
C7_Witness ==
    /\ op.name = "mul3"
    /\ op.a.kind = "STTransform"
    /\ op.b.kind = "NonLinear"
    /\ op.c.kind = "STTransform"
    /\ op.a # op.c
    /\ \E x \in TestPoints :
          /\ ~Map(result.left, x).raised
          /\ Map(result.left, x) = Map(result.right, x)
          /\ Map(result.left, x).value # x

\* C8: map, imap and inverse on a Transform of the base kind end in an
\* unsupported-operation error for every input, emit no change notification
\* and leave the transform as it was.
C8_BaseKindRaises ==
    [][op'.name \in {"map", "imap", "inverse"} =>
         /\ result'.raised
         /\ result'.exc = "NotImplementedError"
         /\ trace' = <<>>
         /\ listeners' = listeners]_vars

\* map was called on a Transform that has a listener.
C8_Witness ==
    /\ op.name = "map"
    /\ listeners[op.transform] # <<>>
    /\ result.raised

\* C9: create_visual_node given a type whose name does not end in "Visual", or
\* that is no subclass of BaseVisual, raises an error naming the type, composes
\* no type and constructs no instance; given a type meeting both it returns a
\* type named by the input name without the suffix.  Every instance is of a
\* type composed from a class meeting both.
HasVisualSuffix(name) ==
    \E k \in 0..Len(name) : SubSeq(name, 1, k) \o Visual = name

Accepted(subclass) == HasVisualSuffix(subclass.name) /\ subclass.base_visual

C9_FactoryContract ==
    /\ [][op'.name = "create_visual_node" =>
            IF Accepted(op'.subclass)
            THEN /\ ~result'.raised
                 /\ result'.cls.name \o Visual = op'.subclass.name
                 /\ result'.cls \in composed'
            ELSE /\ result'.raised
                 /\ result'.exc = "RuntimeError"
                 /\ result'.names = op'.subclass.name
                 /\ composed' = composed
                 /\ created' = created]_vars
    /\ [](/\ \A cls \in composed : Accepted(cls.visual)
          /\ \A n \in Constructed : node_type[n] \in composed)

\* A class that is a BaseVisual but is named without the suffix was refused
\* after an instance of an accepted type had been constructed.
C9_Witness ==
    /\ op.name = "create_visual_node"
    /\ op.subclass.base_visual
    /\ ~HasVisualSuffix(op.subclass.name)
    /\ result.raised
    /\ created > 0

\* C10: when an instance of a composed type is constructed, the drawable's
\* initialization begins and ends before any step of VisualNode.__init__
\* (tree insertion, opacity-filter attach, id registration, picking-filter
\* attach), and each of these steps then runs.
NodeInitSteps ==
    {"Node.__init__", "attach_opacity_filter", "register_id",
     "attach_picking_filter"}

TraceAt(e) == {k \in 1..Len(trace) : trace[k].ev = e}

C10_DrawableInitFirst ==
    (op.name = "construct" /\ op.completes) =>
        /\ \E b \in TraceAt("drawable_init_begin") :
           \E e \in TraceAt("drawable_init_end") :
              /\ b < e
              /\ \A k \in 1..Len(trace) : trace[k].ev \in NodeInitSteps => e < k
        /\ \A st \in NodeInitSteps : TraceAt(st) # {}

\* A node was constructed under a parent.
C10_Witness ==
    /\ op.name = "construct"
    /\ op.completes
    /\ op.parent # NoNode
    /\ op.node \in alive
    /\ TraceAt("attach_picking_filter") # {}

\* The clippers recorded by a VisualNode.
Recorded(self) ==
    {clippers[self][node] : node \in Nodes} \ {NoClipper}

\* C11: after any sequence of _set_clipper(node, c) calls on a VisualNode,
\* its clipper map holds for each node the clipper of the latest call for
\* that node, and no entry where the latest call passed None; a call that
\* replaces a clipper detaches the old one before it attaches the new one,
\* and a clipper that is recorded for no node is not attached.
C11_MapHoldsLatestClipper ==
    /\ \A self \in Constructed :
        /\ \A node \in Nodes : clippers[self][node] = last_set[self][node]
        /\ \A c \in Clippers :
              ClipperFilter(c) \in attached[self] => c \in Recorded(self)
    /\ (op.name = "set_clipper" /\ op.was # NoClipper
            /\ op.clipper # NoClipper) =>
          trace = << Event("detach", op.self, ClipperFilter(op.was)),
                     Event("attach", op.self, ClipperFilter(op.clipper)) >>

\* A call replaced the clipper of a node by another one.
C11_Witness ==
    /\ op.name = "set_clipper"
    /\ op.was # NoClipper
    /\ op.clipper # NoClipper
    /\ op.was # op.clipper
    /\ clippers[op.self][op.node] = op.clipper
    /\ ClipperFilter(op.was) \notin attached[op.self]
    /\ ClipperFilter(op.clipper) \in attached[op.self]

\* C12: n.opacity = o writes o into the Alpha filter of n and asks for a
\* redraw of n; the opacity and the Alpha value of every other node, children
\* of n included, stay as they were, and so do the picking and interactive
\* flags of all nodes.
C12_OpacityIsLocal ==
    [][op'.name = "set_opacity" =>
          /\ opacity'[op'.node] = op'.value
          /\ alpha'[op'.node] = op'.value
          /\ Calls(trace', "update", op'.node) # {}
          /\ \A m \in Nodes \ {op'.node} :
                /\ opacity'[m] = opacity[m]
                /\ alpha'[m] = alpha[m]
                /\ Calls(trace', "update", m) = {}
          /\ picking' = picking
          /\ interactive' = interactive]_vars

\* A picking, interactive parent was made transparent above an opaque child.
C12_Witness ==
    /\ op.name = "set_opacity"
    /\ op.value = 0
    /\ alpha[op.node] = 0
    /\ picking[op.node]
    /\ interactive[op.node]
    /\ \E ch \in Nodes :
          /\ parent[ch] = op.node
          /\ opacity[ch] = OpacitySteps
          /\ alpha[ch] = OpacitySteps

\* The listeners a trace notified of a change of transform t.
Notified(tr, t) ==
    {tr[k].val : k \in {j \in 1..Len(tr) : /\ tr[j].ev = "transform_changed"
                                           /\ tr[j].node = t}}

Connected(t) == {listeners[t][k] : k \in 1..Len(listeners[t])}

\* C13: every call of t.update() has delivered the change notification to
\* every listener connected to t when the call was made, once each, by the
\* time update returns; the call notifies nobody else and leaves no
\* notification to be delivered later.
C13_UpdateNotifiesBeforeReturn ==
    [][op'.name = "update" =>
          /\ Notified(trace', op'.transform) = Connected(op'.transform)
          /\ Len(trace') = Cardinality(Connected(op'.transform))
          /\ \A k \in 1..Len(trace') :
                /\ trace'[k].ev = "transform_changed"
                /\ trace'[k].node = op'.transform]_vars

\* update was called on a transform with MaxListeners listeners.
C13_Witness ==
    /\ op.name = "update"
    /\ Len(listeners[op.transform]) = MaxListeners
    /\ Cardinality(Notified(trace, op.transform)) = MaxListeners
    /\ \E t \in TransformObjs : Len(listeners[t]) < MaxListeners

\* C14: in every product a * b the merge attempt of the left operand is the
\* first call made, and a merge attempt of the right operand is made only
\* after one of the left operand; for every pair of kinds, a right operand
\* whose class is a subclass of the left operand's class included.
C14_LeftOperandConsultedFirst ==
    op.name = "mul" =>
        /\ trace # <<>>
        /\ trace[1].node = Left
        /\ \A k \in 1..Len(trace) :
              trace[k].node = Right => \E j \in 1..(k - 1) : trace[j].node = Left

ClipperKeys(self) == {node \in Nodes : clippers[self][node] # NoClipper}

\* C16, as claimed: in every state reached by _set_clipper calls and by
\* children joining and leaving the tree, every key of a VisualNode's clipper
\* map is a child of that VisualNode; a call with a node that is not a child
\* records no entry.
C16_KeysAreChildren ==
    \A self \in Constructed :
        \A node \in ClipperKeys(self) : parent[node] = self

\* C16, amended: every key of a VisualNode's clipper map is a node whose
\* latest _set_clipper call on that VisualNode passed a clipper, whether the
\* node is a child of the VisualNode or not: a call with a clipper records
\* the entry for any node.
C16_KeysAreNodesLastSet ==
    /\ [](\A self \in Constructed :
             \A node \in ClipperKeys(self) : last_set[self][node] # NoClipper)
    /\ [][(op'.name = "set_clipper" /\ op'.clipper # NoClipper) =>
             clippers'[op'.self][op'.node] = op'.clipper]_vars

\* A clipper is recorded for a node that is not a child of the VisualNode:
\* one recorded for the VisualNode itself, one for a node that has left it.
C16_Witness ==
    \E self \in Constructed :
        /\ self \in ClipperKeys(self)
        /\ \E node \in ClipperKeys(self) \ {self} :
              /\ parent[node] # self
              /\ op.name = "set_parent"
              /\ op.node = node

\* The blend value update_gl_state is given in a picking mode.
BlendFor(p) == IF p THEN "off" ELSE "on"

\* C17: from its construction on, after every picking assignment a node
\* received, directly or through an ancestor, its picking filter is enabled
\* exactly when its picking flag is true, and the blend value last asked
\* for on its behalf, if any was, is the complement of the flag.
C17_FilterAndBlendFollowPicking ==
    \A n \in Constructed :
        n \in alive =>
            /\ filter_enabled[n] = picking[n]
            /\ blend[n] \in {"unset", BlendFor(picking[n])}
            /\ op.name = "set_picking" =>
                  \A k \in Calls(trace, "update_gl_state", n) :
                      (\A j \in Calls(trace, "update_gl_state", n) : j <= k)
                          => trace[k].val = ~picking[n]

\* An assignment on an ancestor took a node out of picking mode again.
C17_Witness ==
    /\ op.name = "set_picking"
    /\ ~op.value
    /\ \E d \in Descendants(op.node) :
          /\ Calls(trace, "update_gl_state", d) # {}
          /\ ~picking[d]
          /\ ~filter_enabled[d]
          /\ blend[d] = "on"

\* C18: in every state reached by _set_clipper calls, every clipper recorded
\* in a VisualNode's clipper map is attached to that VisualNode, also after
\* one clipper was set for two nodes and then cleared or replaced for one of
\* them.
C18_RecordedClippersAreAttached ==
    \A self \in Constructed :
        \A c \in Recorded(self) : ClipperFilter(c) \in attached[self]

\* C19: a construction whose drawable initialization fails leaves the id
\* counter and the registry as they were: no id is taken and no entry is
\* added.  Only a construction that completes moves the counter, and it
\* gives its node the value the counter had, so the next construction that
\* completes gets the id the failed one would have got.
C19_FailedInitTakesNoId ==
    /\ [][(op'.name = "construct" /\ ~op'.completes) =>
             /\ next_id' = next_id
             /\ visual_ids' = visual_ids
             /\ node_id' = node_id]_vars
    /\ [][(op'.name = "construct" /\ op'.completes) =>
             /\ node_id'[op'.node] = next_id
             /\ next_id \in DOMAIN visual_ids'
             /\ visual_ids'[next_id] = op'.node
             /\ next_id' = next_id + 1]_vars
    /\ [][next_id' # next_id => (op'.name = "construct" /\ op'.completes)]_vars

\* A drawable initialization failed after a node had been constructed: the
\* counter is still one past the id of that node.
C19_Witness ==
    /\ op.name = "construct"
    /\ ~op.completes
    /\ TraceAt("drawable_init_raise") # {}
    /\ created > 0
    /\ next_id = node_id[created] + 1
    /\ TraceAt("register_id") = {}

====
